---- MODULE Spec2Model ----
(***************************************************************************)
(* Clipboard history manager: the main process of src/unnamed/part_001     *)
(* (the poller, the history store and the IPC command handlers) as a state *)
(* machine.                                                                *)
(*                                                                         *)
(* A JavaScript string is modelled as a record                             *)
(*     [prefix |-> an ASCII literal, cp |-> a code point, n |-> a count]   *)
(* standing for the literal followed by n repetitions of the character cp, *)
(* so that strings of hundreds of MiB have a length without being spelled  *)
(* out.  Date.now() is the variable now; every poll tick fires at a later  *)
(* clock value than the one before it (the interval is 1000 ms).           *)
(***************************************************************************)
EXTENDS Integers, Sequences, FiniteSets, TLC

VARIABLES
    clipboardHistory,      \* part_001:14  the store, head = index 1
    lastClipboardContent,  \* part_001:15  last observed value or NULL
    clipboardMonitor,      \* part_001:16  the interval handle, NoTimer for null
    timers,                \* the interval timers that are set and not cleared
    mainWindow,            \* part_001:13  "null" | "created" | "shown"
    isQuitting,            \* part_001:404 app.isQuitting
    now,                   \* the clock read by Date.now() / new Date()
    sysText,               \* system clipboard: what clipboard.readText() returns
    sysImage,              \* system clipboard: what clipboard.readImage() returns
    lastOp,                \* the handler that ran last
    response,              \* what the last IPC handler returned
    sent,                  \* the 'clipboard-updated' message the last step sent
    log                    \* the log lines the last step wrote (log.debug/error)

vars == <<clipboardHistory, lastClipboardContent, clipboardMonitor, timers,
          mainWindow, isQuitting, now, sysText, sysImage, lastOp, response, sent, log>>

----------------------------------------------------------------------------
(* Bounds of the model *)

\* The clock stops at MaxTime: at most MaxTime poll ticks are explored.
MaxTime == 4

----------------------------------------------------------------------------
(* Values *)

NULL == [null |-> TRUE]
NoMessage == [none |-> TRUE]
NoResponse == [none |-> TRUE]
Rejected == [rejected |-> TRUE]

MiB == 1024 * 1024

\* part_001:11
MAX_MEMORY_BYTES == 500 * 1024 * 1024

EmptyString == [prefix |-> "", cp |-> 0, n |-> 0]
EmptyImage == [empty |-> TRUE]

DataUrlPrefix == "data:image/png;base64,"

\* Texts another application may put on the system clipboard.
TextSmall == [prefix |-> "abc", cp |-> 0, n |-> 0]
Text300 == [prefix |-> "", cp |-> 97, n |-> 300 * MiB]
\* Repetitions of U+00E9, two bytes each in UTF-8: just under 100 Mi UTF-16
\* units and just under 200 MiB, so that it fits beside Text300 and TextSmall.
TextWide == [prefix |-> "", cp |-> 233, n |-> 100 * MiB - 2]
Texts == {TextSmall, Text300, TextWide}

\* Images another application may put on the system clipboard.
Image300 == [empty |-> FALSE, bitmap |-> 66, bytes |-> 300 * MiB]
Images == {Image300}

\* part_001:134  NativeImage.toDataURL(): the PNG encoding as a base64 data URL
toDataURL(image) ==
    [prefix |-> DataUrlPrefix, cp |-> image.bitmap, n |-> image.bytes - Len(DataUrlPrefix)]

Contents == Texts \cup {toDataURL(i) : i \in Images}
Types == {"text", "image"}

\* String.prototype.length: UTF-16 code units
length(s) == Len(s.prefix) + s.n * (IF s.cp > 65535 THEN 2 ELSE 1)

\* Bytes of one code point in UTF-8
utf8Len(cp) ==
    IF cp < 128 THEN 1 ELSE IF cp < 2048 THEN 2 ELSE IF cp < 65536 THEN 3 ELSE 4

\* part_001:190  Buffer.byteLength(content, 'utf-8')
byteLength(s) == Len(s.prefix) + s.n * utf8Len(s.cp)

\* JavaScript truthiness of a string
truthy(s) == s # NULL /\ length(s) > 0

----------------------------------------------------------------------------
(* The history store *)

RECURSIVE sumSizes(_)
sumSizes(h) == IF h = <<>> THEN 0 ELSE Head(h).size + sumSizes(Tail(h))

\* part_001:226-228
getMemoryUsage(h) == sumSizes(h)

\* Array.prototype.splice(i, 1): the array without its element at i
splice(h, i) == SubSeq(h, 1, i - 1) \o SubSeq(h, i + 1, Len(h))

\* part_001:177  findIndex(item => item.content === content); 0 stands for -1
findIndex(h, content) ==
    IF \E i \in 1..Len(h) : h[i].content = content
    THEN CHOOSE i \in 1..Len(h) :
             /\ h[i].content = content
             /\ \A j \in 1..(i - 1) : h[j].content # content
    ELSE 0

\* Mutant of promote: the size of the promoted item is counted again, in
\* UTF-16 code units
promoteSizeAsLength(h, existingIndex, t) ==
    LET existing == [h[existingIndex] EXCEPT !.timestamp = t, !.id = t,
                                             !.size = length(h[existingIndex].content)]
    IN  <<existing>> \o splice(h, existingIndex)

\* Mutant of promote: the item is refreshed where it lies, not moved
promoteInPlace(h, existingIndex, t) ==
    [h EXCEPT ![existingIndex].timestamp = t, ![existingIndex].id = t]

\* Mutant of promote: the promoted item keeps its id
promoteKeepId(h, existingIndex, t) ==
    LET existing == [h[existingIndex] EXCEPT !.timestamp = t]
    IN  <<existing>> \o splice(h, existingIndex)

\* Mutant of promote: the promoted item is rebuilt as a fresh, unpinned one
promoteUnpinned(h, existingIndex, t) ==
    LET existing == [h[existingIndex] EXCEPT !.timestamp = t, !.id = t,
                                             !.pinned = FALSE]
    IN  <<existing>> \o splice(h, existingIndex)

\* part_001:179-182  the dedup branch: move the existing item to the top
promote(h, existingIndex, t) ==
    LET existing == [h[existingIndex] EXCEPT !.timestamp = t, !.id = t]
    IN  <<existing>> \o splice(h, existingIndex)

\* Mutant of newItem: a new item is pinned from the start
newItemPinned(content, type, t) ==
    [id |-> t, content |-> content, type |-> type, timestamp |-> t,
     size |-> byteLength(content), pinned |-> TRUE]

\* Mutant of newItem: the id is the position counted from the tail
newItemIdByLength(content, type, t) ==
    [id |-> Len(clipboardHistory) + 1, content |-> content, type |-> type,
     timestamp |-> t, size |-> byteLength(content), pinned |-> FALSE]

\* Mutant of newItem: size is the string's length, not its UTF-8 byte length
newItemStringLength(content, type, t) ==
    [id |-> t, content |-> content, type |-> type, timestamp |-> t,
     size |-> length(content), pinned |-> FALSE]

\* part_001:185-192
newItem(content, type, t) ==
    [id |-> t, content |-> content, type |-> type, timestamp |-> t,
     size |-> byteLength(content), pinned |-> FALSE]

\* Mutant of insertOrPromote: no deduplication, every insert adds an item
insertNoDedup(h, content, type, t) == <<newItem(content, type, t)>> \o h

\* part_001:177-195  addToHistory up to the call of enforceMemoryLimit
insertOrPromote(h, content, type, t) ==
    LET existingIndex == findIndex(h, content)
    IN  IF existingIndex # 0
        THEN promote(h, existingIndex, t)
        ELSE <<newItem(content, type, t)>> \o h

\* Mutant of removeIndex: the last item, whatever its pin flag
removeIndexIgnoringPin(h) == Len(h)

\* Mutant of removeIndex: the scan stops before index 0 (i > 0 for i >= 0)
removeIndexOffByOne(h) ==
    IF \E i \in 2..Len(h) : ~h[i].pinned
    THEN CHOOSE i \in 2..Len(h) :
             /\ ~h[i].pinned
             /\ \A j \in (i + 1)..Len(h) : h[j].pinned
    ELSE 0

\* Mutant of removeIndex: the scan runs from the head, not from the tail
removeIndexFromHead(h) ==
    IF \E i \in 1..Len(h) : ~h[i].pinned
    THEN CHOOSE i \in 1..Len(h) :
             /\ ~h[i].pinned
             /\ \A j \in 1..(i - 1) : h[j].pinned
    ELSE 0

\* part_001:213-219  the index of the last non-pinned item; 0 stands for -1
removeIndex(h) ==
    IF \E i \in 1..Len(h) : ~h[i].pinned
    THEN CHOOSE i \in 1..Len(h) :
             /\ ~h[i].pinned
             /\ \A j \in (i + 1)..Len(h) : h[j].pinned
    ELSE 0

\* Mutant of enforceMemoryLimit: the tail item is removed, pinned or not
RECURSIVE enforceFromTail(_)
enforceFromTail(h) ==
    IF getMemoryUsage(h) > MAX_MEMORY_BYTES /\ h # <<>>
    THEN enforceFromTail(splice(h, Len(h)))
    ELSE h

\* Mutant of enforceMemoryLimit: once over the ceiling every non-pinned item
\* is removed
enforceEvictAllUnpinned(h) ==
    IF getMemoryUsage(h) > MAX_MEMORY_BYTES
    THEN SelectSeq(h, LAMBDA item : item.pinned)
    ELSE h

\* Mutant of enforceMemoryLimit: an if for the while, at most one removal
enforceOnce(h) ==
    IF getMemoryUsage(h) > MAX_MEMORY_BYTES /\ removeIndex(h) # 0
    THEN splice(h, removeIndex(h))
    ELSE h

\* part_001:210-224
RECURSIVE enforceMemoryLimit(_)
enforceMemoryLimit(h) ==
    IF getMemoryUsage(h) > MAX_MEMORY_BYTES
    THEN IF removeIndex(h) = 0
         THEN h
         ELSE enforceMemoryLimit(splice(h, removeIndex(h)))
    ELSE h

\* Mutant of send: nothing is sent when there is no current content
sendDropNull(h, content, type) ==
    IF mainWindow # "null" /\ content # NULL
    THEN [history |-> h, currentContent |-> content, contentType |-> type,
          memoryUsage |-> getMemoryUsage(h)]
    ELSE NoMessage

\* Mutant of send: memoryUsage is a total kept from before the handler ran
sendStaleUsage(h, content, type) ==
    IF mainWindow # "null"
    THEN [history |-> h, currentContent |-> content, contentType |-> type,
          memoryUsage |-> getMemoryUsage(clipboardHistory)]
    ELSE NoMessage

\* part_001:200-207 and 152-159  webContents.send('clipboard-updated', ...)
send(h, content, type) ==
    IF mainWindow # "null"
    THEN [history |-> h, currentContent |-> content, contentType |-> type,
          memoryUsage |-> getMemoryUsage(h)]
    ELSE NoMessage

\* part_001:183, 194, 222  the lines addToHistory and enforceMemoryLimit log:
\* which branch ran, then one line per removal
LogDuplicate == "Duplicate detected, moved existing item to top"
LogAdded == "Added item to history"
LogRemoved == "Removed oldest non-pinned item to enforce memory limit"
LogCleared == "Clipboard cleared externally"
LogImageError == "Error converting clipboard image to data URL"
LogMonitorError == "Error monitoring clipboard"

\* Mutant of fileLevel: the default of electron-log, every level is written
fileLevelSilly == "silly"

\* part_001:7  log.transports.file.level
fileLevel == "info"

\* The levels of electron-log, the most severe first
levelRank(l) ==
    CASE l = "error" -> 0
      [] l = "warn" -> 1
      [] l = "info" -> 2
      [] l = "verbose" -> 3
      [] l = "debug" -> 4
      [] l = "silly" -> 5

\* The method each line is logged with: log.error (141, 162) or log.debug
level(line) ==
    IF line \in {LogImageError, LogMonitorError} THEN "error" ELSE "debug"

\* The lines the file transport appends to the log file on disk
fileTransport(lines) ==
    SelectSeq(lines, LAMBDA l : levelRank(level(l)) <= levelRank(fileLevel))

storeLog(before, mid, after) ==
    <<IF Len(mid) = Len(before) THEN LogDuplicate ELSE LogAdded>>
        \o [k \in 1..(Len(mid) - Len(after)) |-> LogRemoved]

\* Mutant of addToHistory: the notification is built before enforcement runs
addToHistorySendBeforeEnforce(content, type) ==
    LET mid == insertOrPromote(clipboardHistory, content, type, now')
        h == enforceMemoryLimit(mid)
    IN  /\ clipboardHistory' = h
        /\ sent' = send(mid, content, type)
        /\ log' = storeLog(clipboardHistory, mid, h)

\* part_001:175-208
addToHistory(content, type) ==
    LET mid == insertOrPromote(clipboardHistory, content, type, now')
        h == enforceMemoryLimit(mid)
    IN  /\ clipboardHistory' = h
        /\ sent' = send(h, content, type)
        /\ log' = storeLog(clipboardHistory, mid, h)

----------------------------------------------------------------------------
(* The poller *)

\* A handle that names no timer (null / undefined)
NoTimer == [none |-> TRUE]

\* setInterval returns a handle no earlier call returned
newTimer == [timer |-> Cardinality(timers) + 1]

\* part_001:117-165  startClipboardMonitoring: the handle is overwritten, a
\* timer it named keeps running
startClipboardMonitoring ==
    /\ clipboardMonitor' = newTimer
    /\ timers' = timers \cup {newTimer}

\* Mutant of stopClipboardMonitoring: the handle is dropped, the timer is not
\* cleared
stopWithoutClearInterval ==
    /\ clipboardMonitor' = NoTimer
    /\ UNCHANGED timers

\* part_001:167-173
stopClipboardMonitoring ==
    IF clipboardMonitor # NoTimer
    THEN /\ timers' = timers \ {clipboardMonitor}
         /\ clipboardMonitor' = NoTimer
    ELSE UNCHANGED <<clipboardMonitor, timers>>

\* Mutant of detect: the image is looked at whenever the text is not new
detectImageBesideText(currentText, currentImage, last, toDataURLThrows) ==
    LET isText == truthy(currentText) /\ currentText # last
        tryImage == ~isText /\ currentImage # EmptyImage
        imageData == IF tryImage /\ ~toDataURLThrows
                     THEN toDataURL(currentImage) ELSE NULL
        isImage == ~isText /\ truthy(imageData) /\ imageData # last
    IN  [newContent |-> IF isText THEN currentText
                        ELSE IF isImage THEN imageData ELSE NULL,
         contentType |-> IF isText THEN "text"
                         ELSE IF isImage THEN "image" ELSE "null",
         imageError |-> tryImage /\ toDataURLThrows]

\* Mutant of detect: no comparison with the last observed value
detectWithoutLast(currentText, currentImage, last, toDataURLThrows) ==
    LET isText == truthy(currentText)
        tryImage == ~truthy(currentText) /\ currentImage # EmptyImage
        imageData == IF tryImage /\ ~toDataURLThrows
                     THEN toDataURL(currentImage) ELSE NULL
        isImage == ~isText /\ truthy(imageData)
    IN  [newContent |-> IF isText THEN currentText
                        ELSE IF isImage THEN imageData ELSE NULL,
         contentType |-> IF isText THEN "text"
                         ELSE IF isImage THEN "image" ELSE "null",
         imageError |-> tryImage /\ toDataURLThrows]

\* part_001:125-144  what a tick takes for new content: the text when it is
\* not empty and not the last observed value, else, with an empty text, the
\* data URL of the image when the conversion succeeds and gives another value
detect(currentText, currentImage, last, toDataURLThrows) ==
    LET isText == truthy(currentText) /\ currentText # last
        tryImage == ~truthy(currentText) /\ currentImage # EmptyImage
        imageData == IF tryImage /\ ~toDataURLThrows
                     THEN toDataURL(currentImage) ELSE NULL
        isImage == ~isText /\ truthy(imageData) /\ imageData # last
    IN  [newContent |-> IF isText THEN currentText
                        ELSE IF isImage THEN imageData ELSE NULL,
         contentType |-> IF isText THEN "text"
                         ELSE IF isImage THEN "image" ELSE "null",
         imageError |-> tryImage /\ toDataURLThrows]

\* Mutant of clearedExternally: an external clear is never detected
clearedNever(currentText, currentImage, last) == FALSE

\* Mutant of clearedExternally: a tick without a text and without new content
\* counts as a clear, whatever the image
clearedWhenNoText(currentText, currentImage, last) ==
    ~truthy(currentText) /\ last # NULL

\* part_001:148  the clipboard was emptied by another application
clearedExternally(currentText, currentImage, last) ==
    ~truthy(currentText) /\ currentImage = EmptyImage /\ last # NULL

\* Mutant of pollTick: a failed read escapes the callback and ends the interval
pollTickUncaught(readThrows, toDataURLThrows) ==
    /\ timers # {}
    /\ now < MaxTime
    /\ now' = now + 1
    /\ lastOp' = "pollTick"
    /\ response' = NoResponse
    /\ UNCHANGED <<mainWindow, isQuitting, sysText, sysImage>>
    /\ IF readThrows
       THEN /\ log' = <<LogMonitorError>>
            /\ sent' = NoMessage
            /\ clipboardMonitor' = NoTimer
            /\ timers' = {}
            /\ UNCHANGED <<clipboardHistory, lastClipboardContent>>
       ELSE /\ UNCHANGED <<clipboardMonitor, timers>>
            /\ LET d == detect(sysText, sysImage, lastClipboardContent, toDataURLThrows)
               IN  IF truthy(d.newContent)
                   THEN /\ lastClipboardContent' = d.newContent
                        /\ addToHistory(d.newContent, d.contentType)
                   ELSE IF clearedExternally(sysText, sysImage, lastClipboardContent)
                   THEN /\ lastClipboardContent' = NULL
                        /\ sent' = send(clipboardHistory, NULL, "null")
                        /\ log' = <<LogCleared>>
                        /\ UNCHANGED clipboardHistory
                   ELSE /\ log' = IF d.imageError THEN <<LogImageError>> ELSE <<>>
                        /\ sent' = NoMessage
                        /\ UNCHANGED <<clipboardHistory, lastClipboardContent>>

\* part_001:120-164  one run of the interval callback.  readThrows: a clipboard
\* read throws; toDataURLThrows: the image conversion throws.
pollTick(readThrows, toDataURLThrows) ==
    /\ timers # {}
    /\ now < MaxTime
    /\ now' = now + 1
    /\ lastOp' = "pollTick"
    /\ response' = NoResponse
    /\ UNCHANGED <<clipboardMonitor, timers, mainWindow, isQuitting, sysText, sysImage>>
    /\ IF readThrows
       THEN /\ log' = <<LogMonitorError>>
            /\ sent' = NoMessage
            /\ UNCHANGED <<clipboardHistory, lastClipboardContent>>
       ELSE LET d == detect(sysText, sysImage, lastClipboardContent, toDataURLThrows)
            IN  IF truthy(d.newContent)
                THEN /\ lastClipboardContent' = d.newContent
                     /\ addToHistory(d.newContent, d.contentType)
                ELSE IF clearedExternally(sysText, sysImage, lastClipboardContent)
                THEN /\ lastClipboardContent' = NULL
                     /\ sent' = send(clipboardHistory, NULL, "null")
                     /\ log' = <<LogCleared>>
                     /\ UNCHANGED clipboardHistory
                ELSE /\ log' = IF d.imageError THEN <<LogImageError>> ELSE <<>>
                     /\ sent' = NoMessage
                     /\ UNCHANGED <<clipboardHistory, lastClipboardContent>>

----------------------------------------------------------------------------
(* IPC command handlers; the renderer exists while the window does *)

\* The renderer invokes a handler; once the application is quitting its
\* window is being closed and it sends no further command.
ipc(name) ==
    /\ mainWindow # "null"
    /\ ~isQuitting
    /\ lastOp' = name
    /\ sent' = NoMessage
    /\ log' = <<>>
    /\ UNCHANGED <<clipboardMonitor, timers, mainWindow, isQuitting, now>>

\* part_001:231-238
getClipboardHistoryHandler ==
    /\ ipc("get-clipboard-history")
    /\ response' = [history |-> clipboardHistory,
                    currentContent |-> lastClipboardContent,
                    memoryUsage |-> getMemoryUsage(clipboardHistory)]
    /\ UNCHANGED <<clipboardHistory, lastClipboardContent, sysText, sysImage>>

\* part_001:289-291
getMemoryUsageHandler ==
    /\ ipc("get-memory-usage")
    /\ response' = getMemoryUsage(clipboardHistory)
    /\ UNCHANGED <<clipboardHistory, lastClipboardContent, sysText, sysImage>>

\* part_001:246  nativeImage.createFromDataURL(content)
createFromDataURL(content) ==
    [empty |-> FALSE, bitmap |-> content.cp, bytes |-> content.n + Len(DataUrlPrefix)]

\* Mutant of copyToClipboardHandler: the last observed value is not updated
copyWithoutLastObserved(content, type, throws) ==
    /\ ipc("copy-to-clipboard")
    /\ UNCHANGED <<clipboardHistory, lastClipboardContent>>
    /\ IF throws
       THEN /\ response' = [success |-> FALSE, error |-> "error.message"]
            /\ UNCHANGED <<sysText, sysImage>>
       ELSE /\ IF type = "text"
               THEN sysText' = content /\ sysImage' = EmptyImage
               ELSE sysText' = EmptyString /\ sysImage' = createFromDataURL(content)
            /\ response' = [success |-> TRUE]

\* part_001:240-255  throws: the platform write or the decode fails
copyToClipboardHandler(content, type, throws) ==
    /\ ipc("copy-to-clipboard")
    /\ UNCHANGED clipboardHistory
    /\ IF throws
       THEN /\ response' = [success |-> FALSE, error |-> "error.message"]
            /\ UNCHANGED <<lastClipboardContent, sysText, sysImage>>
       ELSE /\ IF type = "text"
               THEN sysText' = content /\ sysImage' = EmptyImage
               ELSE sysText' = EmptyString /\ sysImage' = createFromDataURL(content)
            /\ lastClipboardContent' = content
            /\ response' = [success |-> TRUE]

\* part_001:257-267
clearClipboardHandler(throws) ==
    /\ ipc("clear-clipboard")
    /\ UNCHANGED clipboardHistory
    /\ IF throws
       THEN /\ response' = [success |-> FALSE, error |-> "error.message"]
            /\ UNCHANGED <<lastClipboardContent, sysText, sysImage>>
       ELSE /\ sysText' = EmptyString
            /\ sysImage' = EmptyImage
            /\ lastClipboardContent' = NULL
            /\ response' = [success |-> TRUE]

\* Mutant of clearHistoryHandler: pinned entries survive the clear
clearHistoryKeepPinned(throws) ==
    /\ ipc("clear-history")
    /\ clipboardHistory' = SelectSeq(clipboardHistory, LAMBDA e : e.pinned)
    /\ lastClipboardContent' = NULL
    /\ IF throws
       THEN /\ response' = Rejected
            /\ UNCHANGED <<sysText, sysImage>>
       ELSE /\ sysText' = EmptyString
            /\ sysImage' = EmptyImage
            /\ response' = [success |-> TRUE, memoryUsage |-> 0]

\* Mutant of clearHistoryHandler: the system clipboard is left as it is
clearHistoryLeavesClipboard(throws) ==
    /\ ipc("clear-history")
    /\ clipboardHistory' = <<>>
    /\ lastClipboardContent' = NULL
    /\ UNCHANGED <<sysText, sysImage>>
    /\ response' = IF throws THEN Rejected ELSE [success |-> TRUE, memoryUsage |-> 0]

\* part_001:269-275  clipboard.clear() runs after the state is reset and is
\* not guarded: when it throws the invocation is rejected
clearHistoryHandler(throws) ==
    /\ ipc("clear-history")
    /\ clipboardHistory' = <<>>
    /\ lastClipboardContent' = NULL
    /\ IF throws
       THEN /\ response' = Rejected
            /\ UNCHANGED <<sysText, sysImage>>
       ELSE /\ sysText' = EmptyString
            /\ sysImage' = EmptyImage
            /\ response' = [success |-> TRUE, memoryUsage |-> 0]

\* Mutant of filterOut: slice(0, index of the item), the items behind it go too
filterOutTruncate(h, itemId) ==
    IF \E i \in 1..Len(h) : h[i].id = itemId
    THEN SubSeq(h, 1, (CHOOSE i \in 1..Len(h) :
                          /\ h[i].id = itemId
                          /\ \A j \in 1..(i - 1) : h[j].id # itemId) - 1)
    ELSE h

\* Array.prototype.filter(item => item.id !== itemId)
RECURSIVE filterOut(_, _)
filterOut(h, itemId) ==
    IF h = <<>> THEN <<>>
    ELSE IF Head(h).id # itemId
         THEN <<Head(h)>> \o filterOut(Tail(h), itemId)
         ELSE filterOut(Tail(h), itemId)

\* Mutant of deleteHistoryItemHandler: splice(findIndex(...), 1), which removes
\* the last item when findIndex returns -1
deleteBySplice(itemId) ==
    /\ ipc("delete-history-item")
    /\ LET initialLength == Len(clipboardHistory)
           index == IF \E i \in 1..initialLength : clipboardHistory[i].id = itemId
                    THEN CHOOSE i \in 1..initialLength : clipboardHistory[i].id = itemId
                    ELSE initialLength
           filtered == IF initialLength = 0 THEN <<>> ELSE splice(clipboardHistory, index)
           deleted == initialLength # Len(filtered)
       IN  /\ clipboardHistory' = filtered
           /\ response' = [success |-> deleted, history |-> filtered,
                           memoryUsage |-> getMemoryUsage(filtered)]
    /\ UNCHANGED <<lastClipboardContent, sysText, sysImage>>

\* part_001:277-287
deleteHistoryItemHandler(itemId) ==
    /\ ipc("delete-history-item")
    /\ LET initialLength == Len(clipboardHistory)
           filtered == filterOut(clipboardHistory, itemId)
           deleted == initialLength # Len(filtered)
       IN  /\ clipboardHistory' = filtered
           /\ response' = [success |-> deleted, history |-> filtered,
                           memoryUsage |-> getMemoryUsage(filtered)]
    /\ UNCHANGED <<lastClipboardContent, sysText, sysImage>>

\* Mutant of find: the head item stands in when no item has the id
findOrHead(h, itemId) ==
    IF \E i \in 1..Len(h) : h[i].id = itemId
    THEN CHOOSE i \in 1..Len(h) :
             /\ h[i].id = itemId
             /\ \A j \in 1..(i - 1) : h[j].id # itemId
    ELSE IF h = <<>> THEN 0 ELSE 1

\* part_001:315  find(i => i.id === itemId): the index of the first match, 0 if none
find(h, itemId) ==
    IF \E i \in 1..Len(h) : h[i].id = itemId
    THEN CHOOSE i \in 1..Len(h) :
             /\ h[i].id = itemId
             /\ \A j \in 1..(i - 1) : h[j].id # itemId
    ELSE 0

\* Mutant of flipPinned: the toggled item is also moved to the head
flipPinnedMoveToHead(h, i) ==
    <<[h[i] EXCEPT !.pinned = ~h[i].pinned]>> \o splice(h, i)

\* part_001:317
flipPinned(h, i) == [h EXCEPT ![i].pinned = ~h[i].pinned]

\* part_001:313-325
togglePinItemHandler(itemId) ==
    /\ ipc("toggle-pin-item")
    /\ LET item == find(clipboardHistory, itemId)
       IN  IF item # 0
           THEN LET h == flipPinned(clipboardHistory, item)
                IN  /\ clipboardHistory' = h
                    /\ response' = [success |-> TRUE, history |-> h,
                                    memoryUsage |-> getMemoryUsage(h)]
           ELSE /\ response' = [success |-> FALSE]
                /\ UNCHANGED clipboardHistory
    /\ UNCHANGED <<lastClipboardContent, sysText, sysImage>>

----------------------------------------------------------------------------
(* The window and the application *)

env(name) ==
    /\ lastOp' = name
    /\ response' = NoResponse
    /\ sent' = NoMessage
    /\ log' = <<>>
    /\ UNCHANGED <<clipboardHistory, lastClipboardContent, now>>

\* part_001:91-95  'ready-to-show'
readyToShow ==
    /\ mainWindow = "created"
    /\ env("ready-to-show")
    /\ mainWindow' = "shown"
    /\ startClipboardMonitoring
    /\ UNCHANGED <<isQuitting, sysText, sysImage>>

\* part_001:402-409  'before-quit'
beforeQuit ==
    /\ ~isQuitting
    /\ env("before-quit")
    /\ isQuitting' = TRUE
    /\ stopClipboardMonitoring
    /\ UNCHANGED <<mainWindow, sysText, sysImage>>

\* part_001:102-114  'close' is intercepted (the window hides) unless the
\* application is quitting; 'closed' follows only then
windowClosed ==
    /\ mainWindow # "null"
    /\ isQuitting
    /\ env("closed")
    /\ mainWindow' = "null"
    /\ stopClipboardMonitoring
    /\ UNCHANGED <<isQuitting, sysText, sysImage>>

\* part_001:60-115  createWindow: mainWindow = new BrowserWindow(...)
createWindow ==
    /\ mainWindow' = "created"
    /\ UNCHANGED <<clipboardMonitor, timers, isQuitting, sysText, sysImage>>

\* Mutant of showWindow: a window is created whether or not one exists
showWindowAlwaysCreates ==
    /\ env("activate")
    /\ createWindow

\* part_001:366-381 and 389-392  'activate' (dock icon): a window is created
\* when there is none; an existing window is only shown or focused, which
\* changes no variable of the model
showWindow ==
    IF mainWindow = "null"
    THEN env("activate") /\ createWindow
    ELSE UNCHANGED vars

\* part_001:328-348 and 351-357  the global hotkey, registered until
\* 'before-quit' unregisters it: a window is created when there is none; an
\* existing window is only hidden, shown or focused, which changes no
\* variable of the model
toggleWindow ==
    /\ ~isQuitting
    /\ IF mainWindow = "null"
       THEN env("hotkey") /\ createWindow
       ELSE UNCHANGED vars

(* Another application writes the system clipboard *)
externalCopy(text, image) ==
    /\ ~isQuitting
    /\ <<text, image>> # <<sysText, sysImage>>
    /\ env("external-copy")
    /\ sysText' = text
    /\ sysImage' = image
    /\ UNCHANGED <<clipboardMonitor, timers, mainWindow, isQuitting>>

\* What another application leaves on the clipboard: a text, an image, a text
\* with an image, or nothing
ExternalClipboards ==
    {<<t, EmptyImage>> : t \in Texts}
        \cup {<<EmptyString, i>> : i \in Images}
        \cup {<<TextSmall, i>> : i \in Images}
        \cup {<<EmptyString, EmptyImage>>}

----------------------------------------------------------------------------

(* The renderer's list (part_002, app.js) *)

\* Mutant of compare: the pinned flag is ignored
compareByTimestamp(a, b) == b.timestamp - a.timestamp

\* part_002:121-125  the comparator of the sort: negative when a goes first
compare(a, b) ==
    IF a.pinned /\ ~b.pinned THEN -1
    ELSE IF ~a.pinned /\ b.pinned THEN 1
    ELSE b.timestamp - a.timestamp

\* x put into the sorted sequence s behind every item that does not go after it
insertSorted(x, s) ==
    LET later == {i \in 1..Len(s) : compare(x, s[i]) < 0}
        at == IF later = {} THEN Len(s) + 1
              ELSE CHOOSE i \in later : \A j \in later : i <= j
    IN  SubSeq(s, 1, at - 1) \o <<x>> \o SubSeq(s, at, Len(s))

\* part_002:121  [...clipboardHistory].sort(compare): a stable sort of a copy
RECURSIVE sort(_)
sort(h) ==
    IF h = <<>> THEN <<>>
    ELSE insertSorted(h[Len(h)], sort(SubSeq(h, 1, Len(h) - 1)))

\* part_002:7 and 428-431  the type filter of the toolbar
FilterTypes == {"all", "text", "image"}

\* part_002:129-131  a search term, with the texts of Texts that contain it in
\* lower case; the empty term is no search
NoSearch == [term |-> "", hits |-> Texts]
SearchTerms ==
    {NoSearch,
     [term |-> "a", hits |-> {TextSmall, Text300}],
     [term |-> "abc", hits |-> {TextSmall}],
     [term |-> "zz", hits |-> {}]}

\* part_002:133  item.content.toLowerCase().includes(searchLower)
includes(content, searchTerm) == content \in searchTerm.hits

\* part_002:119-139
getFilteredHistory(h, filterType, searchTerm) ==
    SelectSeq(sort(h),
              LAMBDA item :
                  IF filterType # "all" /\ item.type # filterType THEN FALSE
                  ELSE IF searchTerm.term = "" THEN TRUE
                  ELSE IF item.type = "text" THEN includes(item.content, searchTerm)
                  ELSE FALSE)

----------------------------------------------------------------------------

(* The renderer's state and its handlers (part_002, app.js).  r is the
   renderer's state before the handler, result what invoke resolved to, or
   Rejected when it was rejected, data the payload of a notification. *)

\* part_002:2-5
rendererInit ==
    [clipboardHistory |-> <<>>, currentContent |-> NULL, memoryUsage |-> 0]

\* part_002:266-289  the current content is taken from the head of the
\* history; result.currentContent is not read
loadClipboardHistory(r, result) ==
    IF result = Rejected THEN r
    ELSE [clipboardHistory |-> result.history,
          currentContent |-> IF Len(result.history) > 0
                             THEN result.history[1].content
                             ELSE NULL,
          memoryUsage |-> result.memoryUsage]

\* part_002:246-263, 291-308 and 310-329  selectAndCopy, handleHistoryItemClick
\* and copyToClipboard
copyToClipboard(r, item, result) ==
    IF result # Rejected /\ result.success
    THEN [r EXCEPT !.currentContent = item.content]
    ELSE r

\* part_002:331-346
togglePinItem(r, result) ==
    IF result # Rejected /\ result.success
    THEN [r EXCEPT !.clipboardHistory = result.history,
                   !.memoryUsage = result.memoryUsage]
    ELSE r

\* part_002:348-365
clearCurrentClipboard(r, result) ==
    IF result # Rejected /\ result.success
    THEN [r EXCEPT !.currentContent = NULL]
    ELSE r

\* part_002:367-387  a rejected invocation goes to the catch, which shows a
\* toast and leaves the state alone
clearAllHistory(r, result) ==
    IF result # Rejected /\ result.success
    THEN [clipboardHistory |-> <<>>, currentContent |-> NULL,
          memoryUsage |-> result.memoryUsage]
    ELSE r

\* part_002:389-410
deleteHistoryItem(r, result) ==
    IF result # Rejected /\ result.success
    THEN [r EXCEPT !.clipboardHistory = result.history,
                   !.memoryUsage = result.memoryUsage]
    ELSE r

\* part_002:517-541  'clipboard-updated'
onClipboardUpdate(r, data) ==
    [clipboardHistory |-> data.history,
     currentContent |-> data.currentContent,
     memoryUsage |-> data.memoryUsage]

\* The renderer's state after the handler of what one step of the main
\* process delivered: the result of the command named op, or the
\* notification a tick sent.  copied is the content of the item the renderer
\* asked to copy.
rendererStep(r, op, result, data, copied) ==
    IF op = "pollTick"
    THEN IF data = NoMessage THEN r ELSE onClipboardUpdate(r, data)
    ELSE IF op = "get-clipboard-history" THEN loadClipboardHistory(r, result)
    ELSE IF op = "copy-to-clipboard"
         THEN copyToClipboard(r, [content |-> copied], result)
    ELSE IF op = "clear-clipboard" THEN clearCurrentClipboard(r, result)
    ELSE IF op = "clear-history" THEN clearAllHistory(r, result)
    ELSE IF op = "delete-history-item" THEN deleteHistoryItem(r, result)
    ELSE IF op = "toggle-pin-item" THEN togglePinItem(r, result)
    ELSE r

----------------------------------------------------------------------------

\* part_001:13-16 and 384-388: the state once 'ready' has created the window
Init ==
    /\ clipboardHistory = <<>>
    /\ lastClipboardContent = NULL
    /\ clipboardMonitor = NoTimer
    /\ timers = {}
    /\ mainWindow = "created"
    /\ isQuitting = FALSE
    /\ now = 0
    /\ sysText \in Texts \cup {EmptyString}
    /\ sysImage = EmptyImage
    /\ lastOp = "init"
    /\ response = NoResponse
    /\ sent = NoMessage
    /\ log = <<>>

Next ==
    \/ \E r \in BOOLEAN, c \in BOOLEAN : pollTick(r, c)
    \/ getClipboardHistoryHandler
    \/ getMemoryUsageHandler
    \/ \E e \in 1..Len(clipboardHistory), throws \in BOOLEAN :
           copyToClipboardHandler(clipboardHistory[e].content,
                                  clipboardHistory[e].type, throws)
    \/ \E throws \in BOOLEAN : clearClipboardHandler(throws)
    \/ \E throws \in BOOLEAN : clearHistoryHandler(throws)
    \/ \E itemId \in 0..MaxTime : deleteHistoryItemHandler(itemId)
    \/ \E itemId \in 0..MaxTime : togglePinItemHandler(itemId)
    \/ readyToShow
    \/ beforeQuit
    \/ windowClosed
    \/ showWindow
    \/ toggleWindow
    \/ \E x \in ExternalClipboards : externalCopy(x[1], x[2])

Spec == Init /\ [][Next]_vars

----------------------------------------------------------------------------
(* Properties of the store and the poller *)

\* The last step was a poll tick that called addToHistory
TickInserted ==
    /\ lastOp = "pollTick"
    /\ log # <<>>
    /\ log[1] \in {LogDuplicate, LogAdded}

\* This step is a poll tick that calls addToHistory: the tick is the only
\* writer that moves lastClipboardContent to a new non-null value without
\* an IPC command (part_001:128-147)
InsertStep ==
    /\ lastOp' = "pollTick"
    /\ lastClipboardContent' # NULL
    /\ lastClipboardContent' # lastClipboardContent

HasContent(h, c) == \E i \in 1..Len(h) : h[i].content = c

AllPinned(h) == \A i \in 1..Len(h) : h[i].pinned

\* C1: in every reachable state no two entries of clipboardHistory have
\* equal content.
C1_NoDuplicateContent ==
    \A i, j \in 1..Len(clipboardHistory) :
        i # j => clipboardHistory[i].content # clipboardHistory[j].content

\* A tick re-detected content the store already held, among other entries.
C1_Witness ==
    /\ lastOp = "pollTick"
    /\ log = <<LogDuplicate>>
    /\ Len(clipboardHistory) = 3

\* C2: when addToHistory finds an entry with the same content, before
\* enforcement the number of entries is unchanged, that entry is at the
\* head, its timestamp is the current time, its id differs from its old
\* id, its content, size and type are unchanged and the other entries keep
\* their relative order.
C2_PromotionMovesToHead ==
    [][(InsertStep /\ HasContent(clipboardHistory, lastClipboardContent'))
        => LET c == lastClipboardContent'
               i == CHOOSE k \in 1..Len(clipboardHistory) :
                        clipboardHistory[k].content = c
               old == clipboardHistory[i]
               mid == insertOrPromote(clipboardHistory, c, sent'.contentType, now')
           IN  /\ Len(mid) = Len(clipboardHistory)
               /\ mid[1].timestamp = now'
               /\ mid[1].timestamp > old.timestamp
               /\ mid[1].id # old.id
               /\ mid[1].content = old.content
               /\ mid[1].size = old.size
               /\ mid[1].type = old.type
               /\ Tail(mid) = splice(clipboardHistory, i)
               /\ \A k \in 2..Len(mid) : mid[k].content # c
               /\ clipboardHistory' = enforceMemoryLimit(mid)]_vars

\* A promotion just brought an entry from the tail of a three-entry store to
\* its head.
C2_Witness ==
    /\ lastOp = "pollTick"
    /\ log = <<LogDuplicate>>
    /\ Len(clipboardHistory) = 3
    /\ clipboardHistory[1].id = now
    /\ clipboardHistory[1].content = lastClipboardContent
    /\ clipboardHistory[2].id > clipboardHistory[3].id

\* C3: when addToHistory gets content the store does not hold, before
\* enforcement exactly one entry is added, at the head, with pinned = FALSE,
\* the given type and size = the UTF-8 byte length of the content, and the
\* entries present before keep their fields and order.
C3_NewEntryAtHead ==
    [][(InsertStep /\ ~HasContent(clipboardHistory, lastClipboardContent'))
        => LET c == lastClipboardContent'
               type == sent'.contentType
               mid == insertOrPromote(clipboardHistory, c, type, now')
           IN  /\ Len(mid) = Len(clipboardHistory) + 1
               /\ mid[1].content = c
               /\ mid[1].pinned = FALSE
               /\ mid[1].type = type
               /\ type \in Types
               /\ mid[1].size = byteLength(c)
               /\ Tail(mid) = clipboardHistory
               /\ clipboardHistory' = enforceMemoryLimit(mid)]_vars

\* A text of two-byte characters was just added in front of another entry.
C3_Witness ==
    /\ lastOp = "pollTick"
    /\ log = <<LogAdded>>
    /\ Len(clipboardHistory) >= 2
    /\ clipboardHistory[1].content = TextWide
    /\ clipboardHistory[1].size = 2 * TextWide.n
    /\ ~clipboardHistory[1].pinned

\* C4: a pinned entry whose content is inserted again is still pinned after
\* the promotion, and the pinned flag of an entry (followed by its content)
\* changes in no step other than 'toggle-pin-item'.
C4_PinSticky ==
    [][/\ (InsertStep /\ \E i \in 1..Len(clipboardHistory) :
                            /\ clipboardHistory[i].content = lastClipboardContent'
                            /\ clipboardHistory[i].pinned)
            => /\ clipboardHistory' # <<>>
               /\ clipboardHistory'[1].content = lastClipboardContent'
               /\ clipboardHistory'[1].pinned
       /\ \A i \in 1..Len(clipboardHistory), j \in 1..Len(clipboardHistory') :
              (/\ clipboardHistory[i].content = clipboardHistory'[j].content
               /\ clipboardHistory[i].pinned # clipboardHistory'[j].pinned)
                  => lastOp' = "toggle-pin-item"]_vars

\* A pinned image entry was just promoted.
C4_Witness ==
    /\ lastOp = "pollTick"
    /\ log = <<LogDuplicate>>
    /\ clipboardHistory[1].pinned
    /\ clipboardHistory[1].type = "image"
    /\ clipboardHistory[1].id = now

\* C5: after every addToHistory call the total memory is at most
\* MAX_MEMORY_BYTES or every entry left in the store is pinned.
C5_CeilingOrAllPinned ==
    TickInserted
        => \/ getMemoryUsage(clipboardHistory) <= MAX_MEMORY_BYTES
           \/ AllPinned(clipboardHistory)

\* An insert pushed the total over the ceiling and enforcement removed two
\* entries to bring it back.
C5_Witness ==
    /\ TickInserted
    /\ log = <<LogAdded, LogRemoved, LogRemoved>>
    /\ getMemoryUsage(clipboardHistory) <= MAX_MEMORY_BYTES

\* C6: enforcement never removes a pinned entry: every entry pinned before a
\* poll tick is in the store, pinned, after it; a pinned entry leaves the
\* store only in a 'delete-history-item' or 'clear-history' step.
C6_PinnedNeverEvicted ==
    [][/\ lastOp' = "pollTick"
            => \A i \in 1..Len(clipboardHistory) :
                   clipboardHistory[i].pinned
                       => \E j \in 1..Len(clipboardHistory') :
                              /\ clipboardHistory'[j].content = clipboardHistory[i].content
                              /\ clipboardHistory'[j].pinned
       /\ \A i \in 1..Len(clipboardHistory) :
              (/\ clipboardHistory[i].pinned
               /\ ~HasContent(clipboardHistory', clipboardHistory[i].content))
                  => lastOp' \in {"delete-history-item", "clear-history"}]_vars

\* Enforcement removed an entry while a pinned entry sat behind an unpinned
\* one and stayed.
C6_Witness ==
    /\ TickInserted
    /\ LogRemoved \in {log[k] : k \in 1..Len(log)}
    /\ Len(clipboardHistory) >= 2
    /\ clipboardHistory[Len(clipboardHistory)].pinned
    /\ ~clipboardHistory[1].pinned

\* The scenario of C7: the store holds one pinned 300 MiB entry and a poll
\* tick inserts a second, distinct 300 MiB content.
C7_Scenario ==
    /\ InsertStep
    /\ Len(clipboardHistory) = 1
    /\ clipboardHistory[1].pinned
    /\ clipboardHistory[1].size = 300 * MiB
    /\ lastClipboardContent' # clipboardHistory[1].content
    /\ byteLength(lastClipboardContent') = 300 * MiB

\* C7 as stated: after the second insert both entries are present and the
\* total is 600 MiB.
C7_Original_BothKept ==
    [][C7_Scenario
        => /\ Len(clipboardHistory') = 2
           /\ getMemoryUsage(clipboardHistory') = 600 * MiB]_vars

\* C7 (amended): in that scenario the second entry, inserted unpinned, is
\* the one enforcement evicts: the store is left holding only the pinned
\* first entry, unchanged, and the total stays 300 MiB.
C7_FreshEntryEvicted ==
    [][C7_Scenario
        => /\ clipboardHistory' = clipboardHistory
           /\ getMemoryUsage(clipboardHistory') = 300 * MiB
           /\ getMemoryUsage(clipboardHistory') <= MAX_MEMORY_BYTES
           /\ log' = <<LogAdded, LogRemoved>>]_vars

\* The scenario has just run: a pinned 300 MiB entry is alone in the store
\* after a tick added and removed another 300 MiB content.
C7_Witness ==
    /\ lastOp = "pollTick"
    /\ log = <<LogAdded, LogRemoved>>
    /\ Len(clipboardHistory) = 1
    /\ clipboardHistory[1].pinned
    /\ clipboardHistory[1].size = 300 * MiB
    /\ lastClipboardContent # clipboardHistory[1].content
    /\ byteLength(lastClipboardContent) = 300 * MiB

\* C8: the entries enforcement removes are unpinned entries taken from the
\* tail: no unpinned entry closer to the tail than a removed one is kept,
\* and the entries kept are in their order; with one unpinned 300 MiB entry
\* in the store, inserting another 300 MiB content evicts the older one and
\* keeps the newer, total <= 500 MiB.
C8_EvictionOrder ==
    [][InsertStep
        => LET mid == insertOrPromote(clipboardHistory, lastClipboardContent',
                                      sent'.contentType, now')
               Removed == {i \in 1..Len(mid) :
                             ~HasContent(clipboardHistory', mid[i].content)}
               Kept(e) == HasContent(clipboardHistory', e.content)
           IN  /\ \A i \in Removed : ~mid[i].pinned
               /\ \A i \in Removed : \A j \in (i + 1)..Len(mid) :
                      ~mid[j].pinned => j \in Removed
               /\ clipboardHistory' = SelectSeq(mid, Kept)
               /\ (/\ Len(clipboardHistory) = 1
                   /\ ~clipboardHistory[1].pinned
                   /\ clipboardHistory[1].size = 300 * MiB
                   /\ byteLength(lastClipboardContent') = 300 * MiB
                   /\ lastClipboardContent' # clipboardHistory[1].content)
                      => /\ Len(clipboardHistory') = 1
                         /\ clipboardHistory'[1].content = lastClipboardContent'
                         /\ clipboardHistory'[1].id = now'
                         /\ getMemoryUsage(clipboardHistory') <= MAX_MEMORY_BYTES]_vars

\* The newer of two unpinned 300 MiB entries is alone in the store after one
\* removal.
C8_Witness ==
    /\ lastOp = "pollTick"
    /\ log = <<LogAdded, LogRemoved>>
    /\ Len(clipboardHistory) = 1
    /\ ~clipboardHistory[1].pinned
    /\ clipboardHistory[1].size = 300 * MiB
    /\ clipboardHistory[1].content = lastClipboardContent
    /\ clipboardHistory[1].id = now

\* The last step sent a 'clipboard-updated' message for an insert/promotion
InsertNotified ==
    /\ lastOp = "pollTick"
    /\ sent # NoMessage
    /\ sent.currentContent # NULL

\* C9 as stated: the snapshot of every such message is non-empty and its head
\* entry has the message's currentContent.
C9_Original_HeadIsCurrent ==
    InsertNotified
        => /\ sent.history # <<>>
           /\ sent.history[1].content = sent.currentContent

\* C9 (amended): the snapshot is the store after enforcement; its head entry
\* has the message's currentContent unless enforcement evicted the freshly
\* inserted entry itself, and then no entry of the snapshot has that content
\* and every entry of the snapshot is pinned.
C9_SnapshotAfterEnforcement ==
    InsertNotified
        => /\ sent.history = clipboardHistory
           /\ sent.memoryUsage = getMemoryUsage(clipboardHistory)
           /\ \/ /\ sent.history # <<>>
                 /\ sent.history[1].content = sent.currentContent
              \/ /\ ~HasContent(sent.history, sent.currentContent)
                 /\ AllPinned(sent.history)
                 /\ log[1] = LogAdded
                 /\ LogRemoved \in {log[k] : k \in 1..Len(log)}

\* A message for an image insert whose snapshot does not hold the image.
C9_Witness ==
    /\ InsertNotified
    /\ sent.contentType = "image"
    /\ sent.history # <<>>
    /\ ~HasContent(sent.history, sent.currentContent)

\* The shape of a 'clipboard-updated' message about the store as it is
IsUpdateOf(m, h) ==
    /\ m # NoMessage
    /\ m.history = h
    /\ m.memoryUsage = getMemoryUsage(h)
    /\ m.contentType \in Types \cup {"null"}

----------------------------------------------------------------------------
(* The commands that remove entries *)

HasId(h, itemId) == \E i \in 1..Len(h) : h[i].id = itemId

C12_DeleteAbsentId ==
    [][\A itemId \in 0..MaxTime :
          (deleteHistoryItemHandler(itemId) /\ ~HasId(clipboardHistory, itemId))
              => /\ response' # Rejected
                 /\ response'.success = FALSE
                 /\ clipboardHistory' = clipboardHistory
                 /\ getMemoryUsage(clipboardHistory')
                        = getMemoryUsage(clipboardHistory)
                 /\ response'.memoryUsage = getMemoryUsage(clipboardHistory)
                 /\ lastClipboardContent' = lastClipboardContent]_vars

\* A delete found nothing in a store of two entries, one of them pinned
C12_Witness ==
    /\ lastOp = "delete-history-item"
    /\ response.success = FALSE
    /\ Len(clipboardHistory) >= 2
    /\ \E i \in 1..Len(clipboardHistory) : clipboardHistory[i].pinned
    /\ lastClipboardContent # NULL

\* C13: 'delete-history-item' with the id of a present entry removes exactly
\* that entry and returns success = true: one entry fewer, the memory usage
\* lower by that entry's size, the other entries with their fields and in
\* their order.
C13_DeletePresentId ==
    [][\A itemId \in 0..MaxTime :
          (deleteHistoryItemHandler(itemId) /\ HasId(clipboardHistory, itemId))
              => \E i \in 1..Len(clipboardHistory) :
                    /\ clipboardHistory[i].id = itemId
                    /\ response'.success = TRUE
                    /\ clipboardHistory' = splice(clipboardHistory, i)
                    /\ Len(clipboardHistory') = Len(clipboardHistory) - 1
                    /\ getMemoryUsage(clipboardHistory')
                           = getMemoryUsage(clipboardHistory) - clipboardHistory[i].size
                    /\ response'.history = clipboardHistory'
                    /\ lastClipboardContent' = lastClipboardContent]_vars

\* A delete removed one entry and left two behind
C13_Witness ==
    /\ lastOp = "delete-history-item"
    /\ response.success = TRUE
    /\ Len(clipboardHistory) = 2
    /\ response.memoryUsage = clipboardHistory[1].size + clipboardHistory[2].size

----------------------------------------------------------------------------
(* Pinning *)

\* C15: 'toggle-pin-item' with the id of a present entry flips that entry's
\* pinned flag and nothing else: its other fields and its position, every
\* other entry, the order, the memory usage and the last observed clipboard
\* value are unchanged.
C15_ToggleFlipsOnlyPinned ==
    [][\A itemId \in 0..MaxTime :
          (togglePinItemHandler(itemId) /\ HasId(clipboardHistory, itemId))
              => \E i \in 1..Len(clipboardHistory) :
                    /\ clipboardHistory[i].id = itemId
                    /\ response'.success = TRUE
                    /\ Len(clipboardHistory') = Len(clipboardHistory)
                    /\ clipboardHistory'[i] =
                           [clipboardHistory[i] EXCEPT !.pinned = ~clipboardHistory[i].pinned]
                    /\ \A j \in 1..Len(clipboardHistory) :
                           j # i => clipboardHistory'[j] = clipboardHistory[j]
                    /\ getMemoryUsage(clipboardHistory')
                           = getMemoryUsage(clipboardHistory)
                    /\ lastClipboardContent' = lastClipboardContent]_vars

\* A toggle has succeeded on a store whose second entry is pinned and whose
\* head is not
C15_Witness ==
    /\ lastOp = "toggle-pin-item"
    /\ response.success = TRUE
    /\ Len(clipboardHistory) >= 2
    /\ clipboardHistory[2].pinned
    /\ ~clipboardHistory[1].pinned

\* C16: 'toggle-pin-item' with an id no entry has returns {success: false},
\* a normal result without an error message, and leaves every pinned flag
\* and the whole store unchanged.
C16_ToggleAbsentId ==
    [][\A itemId \in 0..MaxTime :
          (togglePinItemHandler(itemId) /\ ~HasId(clipboardHistory, itemId))
              => /\ response' = [success |-> FALSE]
                 /\ clipboardHistory' = clipboardHistory
                 /\ lastClipboardContent' = lastClipboardContent]_vars

\* A toggle found nothing in a store that holds a pinned and an unpinned entry
C16_Witness ==
    /\ lastOp = "toggle-pin-item"
    /\ response = [success |-> FALSE]
    /\ \E i, j \in 1..Len(clipboardHistory) :
           clipboardHistory[i].pinned /\ ~clipboardHistory[j].pinned

----------------------------------------------------------------------------
(* Memory accounting *)

\* The sum of size over the entries, counted from the tail
RECURSIVE TotalSize(_)
TotalSize(h) ==
    IF Len(h) = 0 THEN 0
    ELSE h[Len(h)].size + TotalSize(SubSeq(h, 1, Len(h) - 1))

\* C17: no drift in the memory accounting: every memoryUsage value reported,
\* by getMemoryUsage, by the response of an IPC command or by a
\* 'clipboard-updated' notification, is the sum of size over the entries the
\* store holds at that moment.
C17_NoDrift ==
    /\ getMemoryUsage(clipboardHistory) = TotalSize(clipboardHistory)
    /\ sent # NoMessage => sent.memoryUsage = TotalSize(clipboardHistory)
    /\ lastOp \in {"get-clipboard-history", "delete-history-item"}
           => response.memoryUsage = TotalSize(clipboardHistory)
    /\ (lastOp = "toggle-pin-item" /\ response.success)
           => response.memoryUsage = TotalSize(clipboardHistory)
    /\ (lastOp = "clear-history" /\ response # Rejected)
           => response.memoryUsage = TotalSize(clipboardHistory)
    /\ lastOp = "get-memory-usage" => response = TotalSize(clipboardHistory)

\* The notification of an insert that evicted an entry reports the total of
\* what is left
C17_Witness ==
    /\ TickInserted
    /\ sent # NoMessage
    /\ \E k \in 1..Len(log) : log[k] = LogRemoved
    /\ clipboardHistory # <<>>
    /\ sent.memoryUsage = TotalSize(clipboardHistory)

----------------------------------------------------------------------------
(* The poller and the application's own writes *)

\* C18: a poll tick that reads an empty text and an empty image while the
\* last observed value is not null sets the last observed value to null and
\* emits 'clipboard-updated' with currentContent null and contentType null;
\* the entries of the history and the memory usage are as before the tick.
C18_ExternalClear ==
    [][\A c \in BOOLEAN :
          (/\ pollTick(FALSE, c)
           /\ lastClipboardContent # NULL
           /\ sysText = EmptyString
           /\ sysImage = EmptyImage)
              => /\ lastClipboardContent' = NULL
                 /\ sent' # NoMessage
                 /\ sent'.currentContent = NULL
                 /\ sent'.contentType = "null"
                 /\ sent'.history = clipboardHistory
                 /\ clipboardHistory' = clipboardHistory
                 /\ getMemoryUsage(clipboardHistory')
                        = getMemoryUsage(clipboardHistory)]_vars

\* A tick has detected the clear of a clipboard whose content is in the history
C18_Witness ==
    /\ lastOp = "pollTick"
    /\ log = <<LogCleared>>
    /\ lastClipboardContent = NULL
    /\ sent # NoMessage
    /\ sent.currentContent = NULL
    /\ Len(clipboardHistory) >= 2
    /\ sysText = EmptyString
    /\ sysImage = EmptyImage

\* The system clipboard holds what 'copy-to-clipboard' writes for the last
\* observed value: nothing outside the application has changed it since
InSync ==
    /\ lastClipboardContent # NULL
    /\ \/ <<sysText, sysImage>> = <<lastClipboardContent, EmptyImage>>
       \/ <<sysText, sysImage>> =
              <<EmptyString, createFromDataURL(lastClipboardContent)>>

Stopped == clipboardMonitor = NoTimer /\ timers = {}

Running == clipboardMonitor # NoTimer /\ timers = {clipboardMonitor}

\* C20: the poller is Stopped or Running and nothing else; after
\* stopClipboardMonitoring no poll tick executes, so none changes the store
\* or the last observed value, until startClipboardMonitoring runs again.
C20_NoTickWhileStopped ==
    [][/\ Stopped' \/ Running'
       /\ lastOp' \in {"before-quit", "closed"} => Stopped'
       /\ lastOp' = "ready-to-show" => Running'
       /\ Stopped => /\ lastOp' # "pollTick"
                     /\ lastOp' # "ready-to-show"
                            => UNCHANGED <<clipboardMonitor, timers, now>>
       /\ lastOp' = "pollTick" => Running /\ Running']_vars

\* The poller was stopped after it had ticked, with a clipboard content on
\* the system clipboard that no tick has observed
C20_Witness ==
    /\ lastOp = "closed"
    /\ Stopped
    /\ now \in 1..(MaxTime - 1)
    /\ truthy(sysText)
    /\ sysText # lastClipboardContent

----------------------------------------------------------------------------
(* Failures *)

\* The last step was a poll tick that failed: a clipboard read or the image
\* conversion threw
TickFailed ==
    /\ lastOp = "pollTick"
    /\ log \in {<<LogMonitorError>>, <<LogImageError>>}

\* C21: a poll tick that fails leaves the poller Running: the interval is
\* still alive after it, so the following ticks execute, and the failure does
\* not leave the callback.
C21_FailedTickKeepsPolling ==
    TickFailed => /\ Running
                  /\ timers # {}
                  /\ response = NoResponse
                  /\ sent = NoMessage

\* A second tick has failed after an earlier one, and a further tick can follow
C21_Witness ==
    /\ TickFailed
    /\ log = <<LogMonitorError>>
    /\ now \in 2..(MaxTime - 1)
    /\ clipboardHistory = <<>>
    /\ Running

\* C22: 'copy-to-clipboard', 'clear-clipboard' and 'clear-history' report a
\* failure of the platform write, clear or decode as the result value
\* {success: false, error}; the call is never rejected.
C22_WriteFailureIsResult ==
    lastOp \in {"copy-to-clipboard", "clear-clipboard", "clear-history"}
        => /\ response # Rejected
           /\ response.success = FALSE => "error" \in DOMAIN response

----------------------------------------------------------------------------
(* What a tick detects *)

\* C23: a poll tick whose reads succeed calls addToHistory exactly when the
\* text is not empty and differs from the last observed value, with type
\* text, or the text is empty, an image is present, its conversion succeeds
\* and the data URL differs from the last observed value, with type image;
\* with a non-empty text no image entry is inserted.
C23_TickClassification ==
    [][\A c \in BOOLEAN :
          pollTick(FALSE, c) =>
              LET textNew == truthy(sysText) /\ sysText # lastClipboardContent
                  imageNew == /\ ~truthy(sysText)
                              /\ sysImage # EmptyImage
                              /\ ~c
                              /\ toDataURL(sysImage) # lastClipboardContent
                  inserted == log' # <<>> /\ log'[1] \in {LogAdded, LogDuplicate}
              IN  /\ inserted <=> (textNew \/ imageNew)
                  /\ textNew => /\ sent'.contentType = "text"
                                /\ sent'.currentContent = sysText
                                /\ lastClipboardContent' = sysText
                  /\ imageNew => /\ sent'.contentType = "image"
                                 /\ sent'.currentContent = toDataURL(sysImage)
                                 /\ lastClipboardContent' = toDataURL(sysImage)
                  /\ truthy(sysText) =>
                         ~(inserted /\ sent'.contentType = "image")]_vars

\* A tick has read a text it had already observed beside an image it had
\* not, and has inserted nothing
C23_Witness ==
    /\ lastOp = "pollTick"
    /\ log = <<>>
    /\ truthy(sysText)
    /\ sysText = lastClipboardContent
    /\ sysImage # EmptyImage
    /\ ~HasContent(clipboardHistory, toDataURL(sysImage))

\* Dedup holds and enforcement has completed
Settled(h) ==
    /\ \A i, j \in 1..Len(h) : i # j => h[i].content # h[j].content
    /\ sumSizes(h) <= MAX_MEMORY_BYTES \/ AllPinned(h)

\* C24: no partially applied insert or eviction is observable: every history
\* a 'clipboard-updated' notification carries, and every history that
\* 'get-clipboard-history', 'delete-history-item' or 'toggle-pin-item'
\* returns, is the store after the whole handler: dedup holds and the total
\* is at most the ceiling or every entry is pinned.
C24_NoPartialState ==
    /\ sent # NoMessage
           => sent.history = clipboardHistory /\ Settled(sent.history)
    /\ lastOp \in {"get-clipboard-history", "delete-history-item"}
           => response.history = clipboardHistory /\ Settled(response.history)
    /\ (lastOp = "toggle-pin-item" /\ response.success)
           => response.history = clipboardHistory /\ Settled(response.history)

\* The notification of an insert that evicted two entries carries the
\* history without them
C24_Witness ==
    /\ TickInserted
    /\ Len(log) = 3
    /\ log[2] = LogRemoved
    /\ log[3] = LogRemoved
    /\ sent # NoMessage
    /\ sent.history = clipboardHistory
    /\ Len(sent.history) = 1

----------------------------------------------------------------------------
(* The renderer's list *)

\* s lists the items of h, each once
IsPermutation(s, h) ==
    /\ Len(s) = Len(h)
    /\ \A i \in 1..Len(h) : \E j \in 1..Len(s) : s[j] = h[i]
    /\ \A i, j \in 1..Len(s) : i # j => s[i] # s[j]

\* C25: the list getFilteredHistory produces has every pinned entry before
\* every unpinned one, and non-increasing timestamps within the pinned and
\* within the unpinned entries; without a search term and with the filter
\* 'all' it is a permutation of the store's entries.
C25_PresentationOrder ==
    /\ \A filterType \in FilterTypes, searchTerm \in SearchTerms :
           LET s == getFilteredHistory(clipboardHistory, filterType, searchTerm)
           IN  \A i, j \in 1..Len(s) :
                   i < j => /\ s[j].pinned => s[i].pinned
                            /\ s[i].pinned = s[j].pinned
                                   => s[i].timestamp >= s[j].timestamp
    /\ IsPermutation(getFilteredHistory(clipboardHistory, "all", NoSearch),
                     clipboardHistory)

\* The renderer has loaded a history of three entries in which pinned
\* entries lie behind an unpinned one, and the search leaves two of them
C25_Witness ==
    /\ lastOp = "get-clipboard-history"
    /\ Len(clipboardHistory) = 3
    /\ ~clipboardHistory[1].pinned
    /\ clipboardHistory[2].pinned
    /\ clipboardHistory[3].pinned
    /\ getFilteredHistory(clipboardHistory, "all", NoSearch)[1] = clipboardHistory[2]
    /\ \E searchTerm \in SearchTerms :
           Len(getFilteredHistory(clipboardHistory, "text", searchTerm)) = 2

----------------------------------------------------------------------------
(* What reaches the disk *)

----------------------------------------------------------------------------

\* C27: in every reachable state the size of every entry is the UTF-8 byte
\* length of its content; promotion, pin toggling and the eviction of other
\* entries leave it so.
C27_SizeIsByteLength ==
    \A i \in 1..Len(clipboardHistory) :
        clipboardHistory[i].size = byteLength(clipboardHistory[i].content)

\* A pinned entry whose byte length is not its string length has been
\* promoted
C27_Witness ==
    /\ TickInserted
    /\ log[1] = LogDuplicate
    /\ clipboardHistory[1].pinned
    /\ clipboardHistory[1].size = byteLength(clipboardHistory[1].content)
    /\ byteLength(clipboardHistory[1].content) # length(clipboardHistory[1].content)
    /\ Len(clipboardHistory) >= 2

\* C28: a tick on which the text is empty, an image is present and its
\* conversion throws is skipped: the history, the memory usage and the last
\* observed value are unchanged and no notification is emitted; it is not
\* taken for an external clear.
C28_ImageFailureSkipsTick ==
    [][(/\ pollTick(FALSE, TRUE)
        /\ ~truthy(sysText)
        /\ sysImage # EmptyImage)
           => /\ clipboardHistory' = clipboardHistory
              /\ getMemoryUsage(clipboardHistory') = getMemoryUsage(clipboardHistory)
              /\ lastClipboardContent' = lastClipboardContent
              /\ sent' = NoMessage
              /\ log' = <<LogImageError>>]_vars

\* The conversion of an image has failed while a text was the last observed
\* value
C28_Witness ==
    /\ lastOp = "pollTick"
    /\ log = <<LogImageError>>
    /\ lastClipboardContent # NULL
    /\ clipboardHistory # <<>>
    /\ sysImage # EmptyImage
    /\ sent = NoMessage

\* The clipboard holds the last observed value, or is empty with no value
\* observed
SameAsLast ==
    \/ truthy(sysText) /\ sysText = lastClipboardContent
    \/ /\ ~truthy(sysText)
       /\ sysImage # EmptyImage
       /\ toDataURL(sysImage) = lastClipboardContent
    \/ ~truthy(sysText) /\ sysImage = EmptyImage /\ lastClipboardContent = NULL

\* C29: a tick on which the clipboard holds the last observed value, or is
\* empty with the last observed value already null, changes neither the
\* history nor the memory usage nor the last observed value and emits no
\* notification; and every tick that does not fail ends with the clipboard
\* observed, so one copy gives at most one insert or promotion and one clear
\* one notification, however many ticks follow.
C29_UnchangedClipboardIsNoOp ==
    [][/\ (lastOp' = "pollTick" /\ SameAsLast)
              => /\ clipboardHistory' = clipboardHistory
                 /\ lastClipboardContent' = lastClipboardContent
                 /\ sent' = NoMessage
                 /\ SameAsLast'
       /\ (lastOp' = "pollTick" /\ log' \notin {<<LogMonitorError>>, <<LogImageError>>})
              => SameAsLast']_vars

\* A third tick has found the clipboard as observed and a history of two
\* entries left alone
C29_Witness ==
    /\ lastOp = "pollTick"
    /\ log = <<>>
    /\ sent = NoMessage
    /\ SameAsLast
    /\ lastClipboardContent # NULL
    /\ now >= 3
    /\ Len(clipboardHistory) = 2
    /\ clipboardHistory[1].id = 2

----------------------------------------------------------------------------

\* C30: at most one polling interval is alive at any time: every interval is
\* created while none is alive, so its handle is the first one handed out
\* since the last stop, no handle is overwritten while its interval lives,
\* and one stopClipboardMonitoring ends all ticking.
C30_SingleInterval ==
    /\ Cardinality(timers) <= 1
    /\ timers \subseteq {clipboardMonitor}
    /\ clipboardMonitor \in {NoTimer, [timer |-> 1]}
    /\ lastOp \in {"before-quit", "closed"} => timers = {}

\* A second window has started the poller again after the first was closed
C30_Witness ==
    /\ lastOp = "ready-to-show"
    /\ isQuitting
    /\ timers = {[timer |-> 1]}
    /\ clipboardMonitor = [timer |-> 1]
    /\ now \in 1..(MaxTime - 1)

----------------------------------------------------------------------------
(* The ceiling and the enforcement loop *)

\* C31: the memory ceiling is a hard bound between operations: in every
\* reachable state the total of the sizes is at most MAX_MEMORY_BYTES,
\* whatever the pin flags.
C31_CeilingIsHardBound ==
    getMemoryUsage(clipboardHistory) <= MAX_MEMORY_BYTES

\* An insert that did not fit beside the pinned entries was itself evicted:
\* every entry left is pinned and the total is within the ceiling
C31_Witness ==
    /\ TickInserted
    /\ Len(log) >= 2
    /\ clipboardHistory # <<>>
    /\ AllPinned(clipboardHistory)
    /\ getMemoryUsage(clipboardHistory) >= 300 * MiB
    /\ ~HasContent(clipboardHistory, lastClipboardContent)

\* The history of an inserting tick after the insert or promotion and before
\* enforcement
Mid ==
    insertOrPromote(clipboardHistory, lastClipboardContent', sent'.contentType, now')

Unpinned(h) == Cardinality({i \in 1..Len(h) : ~h[i].pinned})

Removals(lines) == Cardinality({k \in 1..Len(lines) : lines[k] = LogRemoved})

\* h after n iterations of the loop body
RECURSIVE removeN(_, _)
removeN(h, n) ==
    IF n = 0 \/ removeIndex(h) = 0 THEN h
    ELSE removeN(splice(h, removeIndex(h)), n - 1)

\* C32: enforceMemoryLimit terminates: every iteration removes one unpinned
\* entry or exits, so the removals are at most the unpinned entries it
\* starts with, and no pinned entry is among them.
C32_EnforcementTerminates ==
    [][InsertStep =>
          LET r == Len(Mid) - Len(clipboardHistory')
          IN  /\ r \in 0..Unpinned(Mid)
              /\ Removals(log') = r
              /\ Unpinned(clipboardHistory') = Unpinned(Mid) - r
              /\ SelectSeq(clipboardHistory', LAMBDA item : item.pinned)
                     = SelectSeq(Mid, LAMBDA item : item.pinned)]_vars

\* Enforcement has removed the two unpinned entries nearest the tail and
\* left a pinned entry behind the new one
C32_Witness ==
    /\ TickInserted
    /\ Removals(log) = 2
    /\ Len(clipboardHistory) = 2
    /\ ~clipboardHistory[1].pinned
    /\ clipboardHistory[2].pinned

\* C33: enforcement evicts no more than necessary: with the total within the
\* ceiling after the insert or promotion nothing is removed, and when
\* entries are removed the total before the last removal was above the
\* ceiling.
C33_NoNeedlessEviction ==
    [][InsertStep =>
          LET r == Len(Mid) - Len(clipboardHistory')
          IN  /\ getMemoryUsage(Mid) <= MAX_MEMORY_BYTES => clipboardHistory' = Mid
              /\ r > 0 => /\ getMemoryUsage(removeN(Mid, r - 1)) > MAX_MEMORY_BYTES
                          /\ clipboardHistory' = removeN(Mid, r)]_vars

\* One removal was enough: two unpinned entries are left
C33_Witness ==
    /\ TickInserted
    /\ Removals(log) = 1
    /\ Unpinned(clipboardHistory) = 2
    /\ Len(clipboardHistory) = 2
    /\ getMemoryUsage(clipboardHistory) > 300 * MiB

----------------------------------------------------------------------------
(* The poller after the application's own clear and delete *)

\* Nothing is stored, nothing is observed and the system clipboard is empty
Quiet ==
    /\ clipboardHistory = <<>>
    /\ lastClipboardContent = NULL
    /\ ~truthy(sysText)
    /\ sysImage = EmptyImage

OnClipboard ==
    IF truthy(sysText) THEN sysText
    ELSE IF sysImage # EmptyImage THEN toDataURL(sysImage)
    ELSE NULL

\* The clipboard's content has been observed and is not in the history
Gone ==
    /\ OnClipboard # NULL
    /\ lastClipboardContent = OnClipboard
    /\ ~HasContent(clipboardHistory, OnClipboard)

\* C36: a deleted entry does not come back by itself: when
\* 'delete-history-item' removes the entry whose content is the observed
\* content of the system clipboard, that content stays observed and out of
\* the history for as long as the system clipboard is not changed; no tick
\* re-inserts it.
C36_DeletedStaysDeleted ==
    [][/\ (/\ lastOp' = "delete-history-item"
           /\ lastClipboardContent = OnClipboard
           /\ HasContent(clipboardHistory, OnClipboard)
           /\ ~HasContent(clipboardHistory', OnClipboard))
              => Gone'
       /\ (Gone /\ UNCHANGED <<sysText, sysImage>>)
              => /\ Gone'
                 /\ clipboardHistory' = clipboardHistory
                        \/ lastOp' \in {"delete-history-item", "toggle-pin-item"}
                 /\ lastOp' = "pollTick" => sent' = NoMessage]_vars

\* C37: 'clear-history' is all-or-nothing with respect to a failure of the
\* platform: when clearing the system clipboard fails the history and the
\* last observed value are what they were before the command, and the
\* history is emptied only when the command reports success.
C37_ClearHistoryAllOrNothing ==
    [][lastOp' = "clear-history"
           => /\ response' = Rejected
                    => UNCHANGED <<clipboardHistory, lastClipboardContent>>
              /\ (clipboardHistory # <<>> /\ clipboardHistory' = <<>>)
                    => (response' # Rejected /\ response'.success = TRUE)]_vars

----------------------------------------------------------------------------
(* The renderer against the main process *)

\* A renderer whose mirror is the store
Mirror ==
    [clipboardHistory |-> clipboardHistory,
     currentContent |-> lastClipboardContent,
     memoryUsage |-> getMemoryUsage(clipboardHistory)]

\* C38: the renderer's mirror converges to the store: with every result and
\* notification delivered, the renderer's clipboardHistory (entries, order,
\* ids, pin flags) and memoryUsage are the main process's clipboardHistory
\* and getMemoryUsage(); a mirror that is the store before a step is the
\* store after the step's result or notification is handled.
C38_MirrorConverges ==
    [][(mainWindow # "null" /\ mainWindow' # "null")
           => LET r == rendererStep(Mirror, lastOp', response', sent',
                                    lastClipboardContent')
              IN  /\ r.clipboardHistory = clipboardHistory'
                  /\ r.memoryUsage = getMemoryUsage(clipboardHistory')]_vars

\* C39: the current content the renderer shows is the main process's last
\* observed value: after loadClipboardHistory has handled the result of
\* 'get-clipboard-history', and after every 'clipboard-updated'
\* notification is handled, currentContent equals lastClipboardContent,
\* null after a clear and the copied value after an older entry was copied
\* back.
C39_CurrentContentAgrees ==
    /\ lastOp = "get-clipboard-history"
           => loadClipboardHistory(rendererInit, response).currentContent
                  = lastClipboardContent
    /\ sent # NoMessage
           => onClipboardUpdate(rendererInit, sent).currentContent
                  = lastClipboardContent

====
